---------------------------- MODULE Spec2Model ----------------------------
(***************************************************************************)
(* A model of totxt.py: SourceCodeConverter walks a directory tree (or a   *)
(* fresh clone of a remote repository), keeps the files it classifies as   *)
(* text, and concatenates them into one output file.                       *)
(*                                                                         *)
(* The state is the converter instance (its two fields), the position of   *)
(* the running call, the output file on disk and its handle, the console   *)
(* and log, and the temporary clone directory.  The file system below the  *)
(* roots is a fixture that no action changes.                              *)
(***************************************************************************)
EXTENDS Integers, Sequences, FiniteSets, TLC

(***************************************************************************)
(* Bounds and program constants                                            *)
(***************************************************************************)

\* How many writes to (or opens / closes of) the output file may fail in
\* one behaviour.
MaxFaults == 1

\* max_file_size * 1024: KB to bytes (line 33).
KiB == 1024

\* file.read(1024): the prefix is_text_file probes for a null byte (line 56).
ProbeLen == 1024

\* The values of the --max-size option the behaviours draw from (in KiB).
MaxSizes == {1, 2}

\* The names tempfile.TemporaryDirectory() may pick.
TempNames == {"tmpA", "tmpB"}

exclude_dirs == {".git", "node_modules", ".venv", "venv", "__pycache__", "dist", "build"}

(***************************************************************************)
(* The file system: four repositories.  A path is the sequence of names    *)
(* below the repository's root.  The listings are in scandir order, which  *)
(* is not sorted.                                                          *)
(***************************************************************************)

Repos == {"repoA", "dist", "repoC", "repoD"}

\* The repositories that are also given as a github.com URL.
RemoteRepos == {"dist", "repoD"}

\* A directory's listing: its sub-directories and its files, each in the
\* order the file system lists them.
Listing(dirs, files) == [listable |-> TRUE, dirs |-> dirs, files |-> files]

\* os.scandir of directory d of a repository.  repoA/src/secret cannot be
\* listed (scandir raises there; listable says so, dirs and files are what
\* it holds all the same).
scandir(repo, d) ==
  CASE repo = "repoA" /\ d = <<>> ->
         Listing(<<"src", ".git">>,
                 <<"run.log", ".gitignore", "a.txt", "b.bin", "big.txt">>)
    [] repo = "repoA" /\ d = <<"src">> ->
         Listing(<<"build", "secret", "lib">>, <<"main.py", "edge.dat", "late.dat">>)
    [] repo = "repoA" /\ d = <<"src", "build">> -> Listing(<<"deep">>, <<"out.txt">>)
    [] repo = "repoA" /\ d = <<"src", "build", "deep">> -> Listing(<<>>, <<"x.py">>)
    [] repo = "repoA" /\ d = <<"src", "secret">> ->
         [Listing(<<>>, <<"key.txt">>) EXCEPT !.listable = FALSE]
    [] repo = "repoA" /\ d = <<"src", "lib">> ->
         Listing(<<>>, <<"util.py", "exact.txt", "locked.txt">>)
    [] repo = "repoA" /\ d = <<".git">> -> Listing(<<>>, <<"config">>)
    [] repo = "dist" /\ d = <<>> ->
         Listing(<<"node_modules">>, <<"run.log", "notes.txt">>)
    [] repo = "dist" /\ d = <<"node_modules">> -> Listing(<<>>, <<"index.js">>)
    [] repo = "repoC" /\ d = <<>> -> Listing(<<>>, <<"x.tmp", ".gitignore", "y.txt">>)
    [] repo = "repoD" /\ d = <<>> -> Listing(<<>>, <<".gitignore", "z.txt">>)
    [] OTHER -> Listing(<<>>, <<>>)

\* What the operating system answers about a file:
\*   size      os.path.getsize, in bytes
\*   nullAt    1-based position of the first null byte, 0 when there is none
\*   readable  whether open(file, 'rb') succeeds
\*   chardet   what chardet.detect names, "" for None
\*   text      the decoded content
PlainFile(name) ==
  [size |-> 10, nullAt |-> 0, readable |-> TRUE, chardet |-> "ascii", text |-> name]

stat(repo, f) ==
  LET name == f[Len(f)] IN
  CASE name = "a.txt"      -> [PlainFile(name) EXCEPT !.size = 5, !.text = "hello"]
    [] name = "b.bin"      -> [PlainFile(name) EXCEPT !.size = 8, !.nullAt = 3, !.chardet = ""]
    [] name = "big.txt"    -> [PlainFile(name) EXCEPT !.size = 1025]
    [] name = "exact.txt"  -> [PlainFile(name) EXCEPT !.size = 1024]
    [] name = "edge.dat"   -> [PlainFile(name) EXCEPT !.size = 1024, !.nullAt = 1024]
    [] name = "late.dat"   -> [PlainFile(name) EXCEPT !.size = 1030, !.nullAt = 1025, !.chardet = ""]
    [] name = "util.py"    -> [PlainFile(name) EXCEPT !.chardet = "EUC-TW"]
    [] name = "locked.txt" -> [PlainFile(name) EXCEPT !.readable = FALSE]
    [] OTHER               -> PlainFile(name)

\* The encodings open(..., encoding=...) knows; chardet also names some it
\* does not (EUC-TW), and open() then raises LookupError.
PythonCodecs == {"utf-8", "ascii"}

\* A file name as the characters fnmatch compares, cut at the dots.
chars(name) ==
  CASE name = "run.log"    -> <<"run", ".", "log">>
    [] name = ".gitignore" -> <<".", "gitignore">>
    [] name = "a.txt"      -> <<"a", ".", "txt">>
    [] name = "b.bin"      -> <<"b", ".", "bin">>
    [] name = "big.txt"    -> <<"big", ".", "txt">>
    [] name = "main.py"    -> <<"main", ".", "py">>
    [] name = "edge.dat"   -> <<"edge", ".", "dat">>
    [] name = "late.dat"   -> <<"late", ".", "dat">>
    [] name = "out.txt"    -> <<"out", ".", "txt">>
    [] name = "x.py"       -> <<"x", ".", "py">>
    [] name = "util.py"    -> <<"util", ".", "py">>
    [] name = "exact.txt"  -> <<"exact", ".", "txt">>
    [] name = "locked.txt" -> <<"locked", ".", "txt">>
    [] name = "notes.txt"  -> <<"notes", ".", "txt">>
    [] name = "index.js"   -> <<"index", ".", "js">>
    [] name = "x.tmp"      -> <<"x", ".", "tmp">>
    [] name = "y.txt"      -> <<"y", ".", "txt">>
    [] name = "z.txt"      -> <<"z", ".", "txt">>
    [] name = "key.txt"    -> <<"key", ".", "txt">>
    [] name = ".git"       -> <<".", "git">>
    [] OTHER               -> <<name>>

\* The .gitignore at a repository's root: whether it is a file, whether
\* reading it as text succeeds, and its lines as written (characters,
\* with their blanks and line ends).
gitignore_file(repo) ==
  CASE repo = "repoA" ->
         [is_file |-> TRUE, decodes |-> TRUE,
          lines |-> << <<"#", " ", "logs", "\n">>,
                       <<"\n">>,
                       <<"*", ".", "log", " ", "\n">>,
                       <<" ", " ", "\n">>,
                       <<"src", "/", "*", ".", "py", "\n">> >>]
    [] repo = "repoC" ->
         [is_file |-> TRUE, decodes |-> TRUE,
          lines |-> << <<"*", ".", "tmp", "\n">>, <<".", "\n">> >>]
    [] repo = "repoD" ->
         [is_file |-> TRUE, decodes |-> FALSE, lines |-> << <<"*", ".", "txt", "\n">> >>]
    [] OTHER -> [is_file |-> FALSE, decodes |-> TRUE, lines |-> <<>>]


(***************************************************************************)
(* Pure helpers of the standard library, computed as the library does      *)
(***************************************************************************)

Whitespace == {" ", "\n", "\t"}

RECURSIVE lstrip(_)
lstrip(s) == IF s # <<>> /\ Head(s) \in Whitespace THEN lstrip(Tail(s)) ELSE s

RECURSIVE rstrip(_)
rstrip(s) ==
  IF s # <<>> /\ s[Len(s)] \in Whitespace THEN rstrip(SubSeq(s, 1, Len(s) - 1)) ELSE s

\* str.strip()
strip(s) == rstrip(lstrip(s))

\* str.split("/") of a character sequence: the pieces between the slashes.
RECURSIVE split(_, _)
split(s, cur) ==
  IF s = <<>> THEN <<cur>>
  ELSE IF Head(s) = "/" THEN <<cur>> \o split(Tail(s), <<>>)
  ELSE split(Tail(s), Append(cur, Head(s)))

RECURSIVE drop_empty(_)
drop_empty(ps) ==
  IF ps = <<>> THEN <<>>
  ELSE IF Head(ps) = <<>> \/ Head(ps) = <<".">> THEN drop_empty(Tail(ps))
  ELSE <<Head(ps)>> \o drop_empty(Tail(ps))

\* PurePath(pattern).parts: the components between slashes, without the
\* empty ones and the "." ones; an anchored pattern keeps its root "/" as
\* the first part.
pat_parts(pattern) ==
  LET comps == drop_empty(split(pattern, <<>>)) IN
  IF pattern # <<>> /\ Head(pattern) = "/" THEN << <<"/">> >> \o comps ELSE comps

pat_has_root(pattern) == pattern # <<>> /\ Head(pattern) = "/"

\* fnmatch.fnmatchcase(name, pat) with "*" as the only wildcard.
RECURSIVE fnmatchcase(_, _)
fnmatchcase(name, pat) ==
  IF pat = <<>> THEN name = <<>>
  ELSE IF Head(pat) = "*"
    THEN fnmatchcase(name, Tail(pat)) \/ (name # <<>> /\ fnmatchcase(Tail(name), pat))
  ELSE name # <<>> /\ Head(name) = Head(pat) /\ fnmatchcase(Tail(name), Tail(pat))

\* PurePath.match(pattern) of a relative path: "raise" (ValueError: empty
\* pattern) when the pattern has no parts; otherwise the pattern's parts
\* are matched against the path's last parts, from the right.
path_match(rel, pattern) ==
  LET pp == pat_parts(pattern)
      n  == Len(rel)
      m  == Len(pp)
  IN  IF pp = <<>> THEN "raise"
      ELSE IF pat_has_root(pattern) /\ m # n THEN "no"
      ELSE IF m > n THEN "no"
      ELSE IF \A i \in 1..m : fnmatchcase(chars(rel[n - m + i]), pp[i]) THEN "yes"
      ELSE "no"

(***************************************************************************)
(* SourceCodeConverter's pure methods                                      *)
(***************************************************************************)

\* load_gitignore's filter: the stripped lines that are not empty and do
\* not start with '#'.
gitignore_lines(repo) ==
  LET ls == gitignore_file(repo).lines IN
  { strip(ls[i]) : i \in { j \in 1..Len(ls) :
        strip(ls[j]) # <<>> /\ Head(strip(ls[j])) # "#" } }

\* is_ignored: any(rel_path.match(p) for p in self.gitignore_patterns).  A
\* set is iterated in no fixed order and any() stops at the first match,
\* so with a pattern that raises and another that matches either may be
\* met first: this is the set of results the call can have.
is_ignored(rel, patterns) ==
  LET res == { path_match(rel, p) : p \in patterns } IN
  (IF "raise" \in res THEN {"raise"} ELSE {})
    \cup (IF "yes" \in res THEN {"yes"} ELSE {})
    \cup (IF res \subseteq {"no"} THEN {"no"} ELSE {})

\* is_text_file probing one byte less than line 56 does.
is_text_file_short_probe(repo, f, max_bytes) ==
  LET st == stat(repo, f) IN
  IF st.size > max_bytes THEN [ret |-> FALSE, warn |-> FALSE]
  ELSE IF ~st.readable THEN [ret |-> FALSE, warn |-> TRUE]
  ELSE IF st.nullAt # 0 /\ st.nullAt < ProbeLen THEN [ret |-> FALSE, warn |-> FALSE]
  ELSE [ret |-> TRUE, warn |-> FALSE]

\* is_text_file: ret is what it returns, warn whether it logged the
\* warning of its except branch.
is_text_file(repo, f, max_bytes) ==
  LET st == stat(repo, f) IN
  IF st.size > max_bytes THEN [ret |-> FALSE, warn |-> FALSE]
  ELSE IF ~st.readable THEN [ret |-> FALSE, warn |-> TRUE]
  ELSE IF st.nullAt # 0 /\ st.nullAt <= ProbeLen THEN [ret |-> FALSE, warn |-> FALSE]
  ELSE [ret |-> TRUE, warn |-> FALSE]

\* detect_encoding: result['encoding'] or 'utf-8', and 'utf-8' on any error.
detect_encoding(repo, f) ==
  LET st == stat(repo, f) IN
  IF ~st.readable THEN "utf-8"
  ELSE IF st.chardet = "" THEN "utf-8"
  ELSE st.chardet

\* read_source_file putting the error's text where line 79 returns "".
read_source_file_error_text(repo, f) ==
  LET st == stat(repo, f) IN
  IF detect_encoding(repo, f) \notin PythonCodecs \/ ~st.readable
    THEN [ret |-> "Error reading file", warn |-> TRUE]
    ELSE [ret |-> st.text, warn |-> FALSE]

\* read_source_file: the decoded text, or "" with a warning when opening
\* or reading raised.
read_source_file(repo, f) ==
  LET st == stat(repo, f) IN
  IF detect_encoding(repo, f) \notin PythonCodecs \/ ~st.readable
    THEN [ret |-> "", warn |-> TRUE]
    ELSE [ret |-> st.text, warn |-> FALSE]

\* Line 96 without its filter.
keep_dirs_all(ds) == ds

\* The pruning of line 96: the sub-directories os.walk goes on to visit.
RECURSIVE keep_dirs(_)
keep_dirs(ds) ==
  IF ds = <<>> THEN <<>>
  ELSE IF Head(ds) \in exclude_dirs THEN keep_dirs(Tail(ds))
  ELSE <<Head(ds)>> \o keep_dirs(Tail(ds))

\* os.walk(repo_path), top-down, with the pruning: the files in the order
\* the two loops of lines 95 and 97 meet them.  A directory's own files
\* come before those of its sub-directories; a directory that cannot be
\* listed yields nothing (os.walk's onerror is None: the error is dropped).
RECURSIVE walk(_, _)
RECURSIVE walk_dirs(_, _, _)
\* os.walk(topdown=False): the sub-directories before the directory itself.
walk_bottom_up(repo, d) ==
  LET ls == scandir(repo, d) IN
  IF ~ls.listable THEN <<>>
  ELSE walk_dirs(repo, d, keep_dirs(ls.dirs))
         \o [i \in 1..Len(ls.files) |-> Append(d, ls.files[i])]

walk(repo, d) ==
  LET ls == scandir(repo, d) IN
  IF ~ls.listable THEN <<>>
  ELSE [i \in 1..Len(ls.files) |-> Append(d, ls.files[i])]
         \o walk_dirs(repo, d, keep_dirs(ls.dirs))

walk_dirs(repo, d, ds) ==
  IF ds = <<>> THEN <<>>
  ELSE walk(repo, Append(d, Head(ds))) \o walk_dirs(repo, d, Tail(ds))

(***************************************************************************)
(* State                                                                   *)
(***************************************************************************)

VARIABLES
  gitignore_patterns, \* self.gitignore_patterns
  max_file_size,      \* self.max_file_size, in bytes
  pc,                 \* where the running call stands; "idle" between calls
  call,               \* the arguments of the running (or last) call
  temp_dir,           \* the TemporaryDirectory of the call, "" when none
  temp_exists,        \* whether that directory exists on disk
  temp_populated,     \* whether git clone has filled it
  outfile_open,       \* whether the output file's handle is open
  disk,               \* the output file's content on disk
  processed_files,    \* the local counter of convert_repository
  pending,            \* the files os.walk has still to yield
  visited,            \* the files the loop of line 97 has dealt with, in order
  opened,             \* whether the call has opened (and so truncated) the output
  events,             \* what was logged and printed by the call, in order
  raised,             \* the exception that left the call, "none" if none
  io_failed,          \* whether an operation on the output file failed in the call
  faults,             \* how many operations on the output file have failed
  prev                \* when the call repeats the one before it (same locator,
                      \* same size option): that call's arguments, and the
                      \* artifact it left unless the output file failed it

vars == <<gitignore_patterns, max_file_size, pc, call, temp_dir, temp_exists,
          temp_populated, outfile_open, disk, processed_files, pending, visited,
          opened, events, raised, io_failed, faults, prev>>

NoCall == [remote |-> FALSE, repo |-> "", cli |-> FALSE]

NoRun == [call |-> NoCall, max_file_size |-> 0, artifact |-> <<>>, io_failed |-> FALSE]

\* One write to the output file.
Entry(k, path, text) == [k |-> k, path |-> path, text |-> text]

\* One line of the log or of the console.
Event(ev, f, n) == [ev |-> ev, f |-> f, n |-> n]

\* str(repo_path): the root as the header line shows it.
repo_path == IF call.remote THEN temp_dir ELSE call.repo

\* The call has returned or raised; a remote call still has to leave its
\* "with tempfile.TemporaryDirectory()" block.
after_call == IF call.remote THEN "cleanup" ELSE "idle"

\* Whether another operation on the output file may fail.
may_fail == faults < MaxFaults

(***************************************************************************)
(* Entry points                                                            *)
(***************************************************************************)

\* What every call starts from: the locals of the previous call are gone.
begin_call(c, start_pc, size) ==
  /\ pc = "idle"
  /\ call' = c
  /\ pc' = start_pc
  /\ prev' = IF call.repo = c.repo /\ call.remote = c.remote
                  /\ size = max_file_size
               THEN [call |-> call, max_file_size |-> max_file_size,
                     artifact |-> IF io_failed THEN <<>> ELSE disk,
                     io_failed |-> io_failed]
               ELSE NoRun
  /\ processed_files' = 0
  /\ pending' = <<>>
  /\ visited' = <<>>
  /\ opened' = FALSE
  /\ events' = <<>>
  /\ raised' = "none"
  /\ io_failed' = FALSE
  /\ outfile_open' = FALSE
  /\ temp_populated' = FALSE
  /\ UNCHANGED <<disk, faults>>

\* with tempfile.TemporaryDirectory() as temp_dir (line 118)
enter_temp_dir ==
  /\ temp_dir' \in TempNames
  /\ temp_exists' = TRUE

no_temp_dir ==
  /\ temp_dir' = ""
  /\ temp_exists' = FALSE

\* convert (lines 125-141): a new converter, then the call the locator
\* asks for ("github.com" in repo_path).
convert(remote, repo, max_size) ==
  /\ gitignore_patterns' = {}
  /\ max_file_size' = max_size * KiB
  /\ IF remote
       THEN begin_call([remote |-> TRUE, repo |-> repo, cli |-> TRUE], "clone",
                       max_size * KiB)
            /\ enter_temp_dir
       ELSE begin_call([remote |-> FALSE, repo |-> repo, cli |-> TRUE], "load",
                       max_size * KiB)
            /\ no_temp_dir

\* convert_repository called again on the same converter.
convert_repository(repo) ==
  /\ call # NoCall
  /\ begin_call([remote |-> FALSE, repo |-> repo, cli |-> FALSE], "load", max_file_size)
  /\ no_temp_dir
  /\ UNCHANGED <<gitignore_patterns, max_file_size>>

\* clone_and_convert called again on the same converter (lines 117-119).
clone_and_convert(repo) ==
  /\ call # NoCall
  /\ begin_call([remote |-> TRUE, repo |-> repo, cli |-> FALSE], "clone", max_file_size)
  /\ enter_temp_dir
  /\ UNCHANGED <<gitignore_patterns, max_file_size>>

(***************************************************************************)
(* clone_and_convert                                                       *)
(***************************************************************************)

\* subprocess.run(["git", "clone", ...], check=True) returns (line 120).
git_clone_ok ==
  /\ pc = "clone"
  /\ temp_populated' = TRUE
  /\ pc' = "load"
  /\ UNCHANGED <<gitignore_patterns, max_file_size, call, temp_dir, temp_exists,
                 outfile_open, disk, processed_files, pending, visited, opened,
                 events, raised, io_failed, faults, prev>>

\* The clone failing with the directory made by mkdtemp and removed only
\* after convert_repository.
git_clone_fail_keeps_dir ==
  /\ pc = "clone"
  /\ raised' = "CalledProcessError"
  /\ pc' = "idle"
  /\ UNCHANGED <<gitignore_patterns, max_file_size, call, temp_dir, temp_exists,
                 temp_populated, outfile_open, disk, processed_files, pending,
                 visited, opened, events, io_failed, faults, prev>>

\* It raises CalledProcessError: the with block is left, which removes the
\* directory, and the exception leaves clone_and_convert.
git_clone_fail ==
  /\ pc = "clone"
  /\ raised' = "CalledProcessError"
  /\ temp_exists' = FALSE
  /\ pc' = "idle"
  /\ UNCHANGED <<gitignore_patterns, max_file_size, call, temp_dir, temp_populated,
                 outfile_open, disk, processed_files, pending, visited, opened,
                 events, io_failed, faults, prev>>

\* The with block of line 118 is left after convert_repository returned or
\* raised: TemporaryDirectory removes the directory.
leave_temp_dir ==
  /\ pc = "cleanup"
  /\ temp_exists' = FALSE
  /\ pc' = "idle"
  /\ UNCHANGED <<gitignore_patterns, max_file_size, call, temp_dir, temp_populated,
                 outfile_open, disk, processed_files, pending, visited, opened,
                 events, raised, io_failed, faults, prev>>

(***************************************************************************)
(* convert_repository                                                      *)
(***************************************************************************)

\* load_gitignore (lines 38-45, called at line 82, outside the try).  The
\* patterns are added to the set the converter already holds.  When the
\* file does not decode, the exception leaves convert_repository.
load_gitignore ==
  /\ pc = "load"
  /\ LET gi == gitignore_file(call.repo) IN
     IF gi.is_file /\ ~gi.decodes
       THEN /\ raised' = "UnicodeDecodeError"
            /\ pc' = after_call
            /\ UNCHANGED gitignore_patterns
       ELSE /\ gitignore_patterns' =
                 gitignore_patterns \cup
                   (IF gi.is_file THEN gitignore_lines(call.repo) ELSE {})
            /\ pc' = "open"
            /\ UNCHANGED raised
  /\ UNCHANGED <<max_file_size, call, temp_dir, temp_exists, temp_populated,
                 outfile_open, disk, processed_files, pending, visited, opened,
                 events, io_failed, faults, prev>>

\* except Exception as e: self.logger.error("Error during conversion") (114-115)
conversion_error ==
  /\ events' = Append(events, Event("error_conversion", <<>>, 0))
  /\ outfile_open' = FALSE
  /\ pc' = after_call

\* Mode 'a' instead of 'w'.
truncated_not(old) == old

\* Mode 'w': what is left of the file's old content when it is opened.
truncated(old) == <<>>

\* open(output_path, 'w') (line 90): the file is truncated and the handle
\* held; or open raises.
open_output ==
  /\ pc = "open"
  /\ \/ /\ disk' = truncated(disk)
        /\ outfile_open' = TRUE
        /\ opened' = TRUE
        /\ pc' = "header"
        /\ UNCHANGED <<events, io_failed, faults>>
     \/ /\ may_fail
        /\ faults' = faults + 1
        /\ io_failed' = TRUE
        /\ conversion_error
        /\ UNCHANGED <<disk, opened>>
  /\ UNCHANGED <<gitignore_patterns, max_file_size, call, temp_dir, temp_exists,
                 temp_populated, processed_files, pending, visited, raised, prev>>

\* The two writes of lines 91-92 and the start of os.walk (processed_files
\* is 0 since the call began); either write may raise, which ends the with block (the handle
\* is closed) and reaches the except of line 114.
write_header ==
  /\ pc = "header"
  /\ \/ /\ disk' = disk \o <<Entry("repo", <<>>, repo_path), Entry("rule", <<>>, "")>>
        /\ pending' = walk(call.repo, <<>>)
        /\ pc' = "walk"
        /\ UNCHANGED <<events, io_failed, faults, outfile_open>>
     \/ /\ may_fail
        /\ \E done \in {0, 1} :
             disk' = disk \o SubSeq(<<Entry("repo", <<>>, repo_path)>>, 1, done)
        /\ faults' = faults + 1
        /\ io_failed' = TRUE
        /\ conversion_error
        /\ UNCHANGED pending
  /\ UNCHANGED <<gitignore_patterns, max_file_size, call, temp_dir, temp_exists,
                 temp_populated, processed_files, visited, opened, raised, prev>>

\* The section of one file as lines 102-105 write it.
section(f, content) ==
  <<Entry("hdr", f, ""), Entry("dash", f, ""), Entry("txt", f, content)>>

\* The inner try with the increment of line 106 moved before the writes.
write_section_counts_first(f, rd, ev0) ==
  LET ev1 == IF rd.warn THEN Append(ev0, Event("warning_read", f, 0)) ELSE ev0 IN
  /\ processed_files' = processed_files + 1
  /\ \/ /\ disk' = disk \o section(f, rd.ret)
        /\ events' = ev1
        /\ UNCHANGED <<io_failed, faults>>
     \/ /\ may_fail
        /\ \E done \in {0, 1, 2} :
             /\ disk' = disk \o SubSeq(section(f, rd.ret), 1, done)
             /\ events' = Append(IF done = 2 THEN ev1 ELSE ev0,
                                 Event("error_processing", f, 0))
        /\ faults' = faults + 1
        /\ io_failed' = TRUE

\* The inner try of lines 100-108 for a file that passed both tests: the
\* three writes and the increment; a write that raises is logged by the
\* except of line 107 and leaves what the writes before it wrote.  ev0 is
\* the log so far, rd what read_source_file returns (and whether it warned).
write_section(f, rd, ev0) ==
  LET ev1 == IF rd.warn THEN Append(ev0, Event("warning_read", f, 0)) ELSE ev0 IN
  \/ /\ disk' = disk \o section(f, rd.ret)
     /\ processed_files' = processed_files + 1
     /\ events' = ev1
     /\ UNCHANGED <<io_failed, faults>>
  \/ /\ may_fail
     /\ \E done \in {0, 1, 2} :
          /\ disk' = disk \o SubSeq(section(f, rd.ret), 1, done)
          /\ events' = Append(IF done = 2 THEN ev1 ELSE ev0,
                              Event("error_processing", f, 0))
     /\ faults' = faults + 1
     /\ io_failed' = TRUE
     /\ UNCHANGED processed_files

\* One turn of the loop of line 97, for the next file os.walk yields.
process_file ==
  /\ pc = "walk"
  /\ pending # <<>>
  /\ LET f   == Head(pending)
         txt == is_text_file(call.repo, f, max_file_size)
         ev0 == IF txt.warn THEN Append(events, Event("warning_check", f, 0))
                ELSE events
     IN
     IF ~txt.ret
       THEN \* is_text_file is False: "and" does not call is_ignored
            /\ events' = ev0
            /\ pending' = Tail(pending)
            /\ visited' = Append(visited, f)
            /\ pc' = "walk"
            /\ UNCHANGED <<disk, processed_files, outfile_open, io_failed, faults>>
       ELSE \E ign \in is_ignored(f, gitignore_patterns) :
            CASE ign = "raise" ->
                   \* ValueError at line 99, outside the inner try
                   /\ conversion_error
                   /\ UNCHANGED <<disk, processed_files, pending, visited,
                                  io_failed, faults>>
              [] ign = "yes" ->
                   /\ pending' = Tail(pending)
                   /\ visited' = Append(visited, f)
                   /\ pc' = "walk"
                   /\ UNCHANGED <<disk, processed_files, outfile_open, events,
                                  io_failed, faults>>
              [] OTHER ->
                   /\ pending' = Tail(pending)
                   /\ visited' = Append(visited, f)
                   /\ pc' = "walk"
                   /\ UNCHANGED outfile_open
                   /\ write_section(f, read_source_file(call.repo, f), ev0)
  /\ UNCHANGED <<gitignore_patterns, max_file_size, call, temp_dir, temp_exists,
                 temp_populated, opened, raised, prev>>

\* os.walk is exhausted: progress.update, the with block closes the file,
\* and the three console.print of lines 111-113; or the close raises.
finish_walk ==
  /\ pc = "walk"
  /\ pending = <<>>
  /\ \/ /\ outfile_open' = FALSE
        /\ events' = Append(events, Event("summary", <<>>, processed_files))
        /\ pc' = after_call
        /\ UNCHANGED <<io_failed, faults>>
     \/ /\ may_fail
        /\ faults' = faults + 1
        /\ io_failed' = TRUE
        /\ conversion_error
  /\ UNCHANGED <<gitignore_patterns, max_file_size, call, temp_dir, temp_exists,
                 temp_populated, disk, processed_files, pending, visited, opened,
                 raised, prev>>

(***************************************************************************)
(* Specification                                                           *)
(***************************************************************************)

Init ==
  /\ gitignore_patterns = {}
  /\ max_file_size \in {m * KiB : m \in MaxSizes}
  /\ pc = "idle"
  /\ call = NoCall
  /\ temp_dir = ""
  /\ temp_exists = FALSE
  /\ temp_populated = FALSE
  /\ outfile_open = FALSE
  /\ disk = <<>>
  /\ processed_files = 0
  /\ pending = <<>>
  /\ visited = <<>>
  /\ opened = FALSE
  /\ events = <<>>
  /\ raised = "none"
  /\ io_failed = FALSE
  /\ faults = 0
  /\ prev = NoRun

Next ==
  \/ \E repo \in Repos, ms \in MaxSizes : convert(FALSE, repo, ms)
  \/ \E repo \in RemoteRepos, ms \in MaxSizes : convert(TRUE, repo, ms)
  \/ \E repo \in Repos : convert_repository(repo)
  \/ \E repo \in RemoteRepos : clone_and_convert(repo)
  \/ git_clone_ok
  \/ git_clone_fail
  \/ leave_temp_dir
  \/ load_gitignore
  \/ open_output
  \/ write_header
  \/ process_file
  \/ finish_walk

Spec == Init /\ [][Next]_vars

(***************************************************************************)
(* What the properties speak of                                            *)
(***************************************************************************)

\* The positions of the output file that hold an entry of kind k.
at(k) == { i \in 1..Len(disk) : disk[i].k = k }

\* The positions of the path headers of file f.
headers_of(f) == { i \in at("hdr") : disk[i].path = f }

logged(ev) == \E i \in 1..Len(events) : events[i].ev = ev

logged_for(ev, f) == \E i \in 1..Len(events) : events[i].ev = ev /\ events[i].f = f

summary_printed == logged("summary")

\* The call is over: it returned or raised.
call_ended == call # NoCall /\ pc = "idle"

\* convert_repository was entered and is over.
convert_repository_ended ==
  call # NoCall /\ pc \in {"idle", "cleanup"} /\ raised # "CalledProcessError"

\* Every directory of a repository, pruned or not.
RECURSIVE tree_dirs(_, _)
tree_dirs(repo, d) ==
  LET ds == scandir(repo, d).dirs IN
  {d} \cup UNION { tree_dirs(repo, Append(d, ds[i])) : i \in 1..Len(ds) }

\* Every file below the root of a repository.
tree_files(repo) ==
  UNION { { Append(d, scandir(repo, d).files[i]) : i \in 1..Len(scandir(repo, d).files) }
          : d \in tree_dirs(repo, <<>>) }

\* File f lies in a directory of the exclusion set, at some depth below the root.
under_excluded(f) == \E i \in 1..(Len(f) - 1) : f[i] \in exclude_dirs

\* File f lies in a directory that cannot be listed.
under_unlistable(repo, f) ==
  \E i \in 0..(Len(f) - 1) : ~scandir(repo, SubSeq(f, 1, i)).listable

\* The three conditions of the classification, stated on the file itself.
under_ceiling(repo, f) == stat(repo, f).size <= max_file_size

null_in_first_KiB(repo, f) ==
  stat(repo, f).nullAt >= 1 /\ stat(repo, f).nullAt <= 1024

matches_a_pattern(f) == \E p \in gitignore_patterns : path_match(f, p) = "yes"

eligible(repo, f) ==
  under_ceiling(repo, f) /\ ~null_in_first_KiB(repo, f) /\ ~matches_a_pattern(f)

\* The position of x in sequence s (0 when absent).
index_of(s, x) == IF \E i \in 1..Len(s) : s[i] = x
                  THEN CHOOSE i \in 1..Len(s) : s[i] = x ELSE 0

\* The length of the longest common prefix of two different paths.
common(p, q) ==
  CHOOSE k \in 0..Len(p) :
    /\ k <= Len(q)
    /\ \A i \in 1..k : p[i] = q[i]
    /\ (k = Len(p) \/ k = Len(q) \/ p[k + 1] # q[k + 1])

\* A top-down walk meets file p before file q: in their deepest common
\* directory, p is a file and q lies in a sub-directory, or both are files
\* (or lie in sub-directories) and p's comes first in the listing.
visits_before(repo, p, q) ==
  LET k  == common(p, q)
      ls == scandir(repo, SubSeq(p, 1, k))
  IN  /\ p # q
      /\ IF k = Len(p) - 1 /\ k = Len(q) - 1
           THEN index_of(ls.files, p[k + 1]) < index_of(ls.files, q[k + 1])
         ELSE IF k = Len(p) - 1 THEN TRUE
         ELSE IF k = Len(q) - 1 THEN FALSE
         ELSE index_of(ls.dirs, p[k + 1]) < index_of(ls.dirs, q[k + 1])

(***************************************************************************)
(* C1                                                                      *)
(***************************************************************************)

\* C1, as claimed: when a run has printed its summary (and no operation on
\* the output file failed), every file under the root that is under the
\* size ceiling, has no null byte in its first 1024 bytes and matches no
\* loaded pattern has exactly one path header in the output.
C1_EveryEligibleFileHasOneSection ==
  (summary_printed /\ ~io_failed) =>
    \A f \in tree_files(call.repo) :
      eligible(call.repo, f) => Cardinality(headers_of(f)) = 1

\* C1, amended: the claim holds of the files the walk reaches, that is the
\* files outside every excluded directory, which is_text_file could open.
\* Once the loop has dealt with such a file, and unless a write of its
\* section raised, the file has exactly one path header; no file has two;
\* the headers stand in the order of a top-down walk (a directory's files
\* in listing order, before those of its sub-directories), after the one
\* "# Repository:" line; and a run that prints its summary has dealt with
\* every file outside the excluded directories and the directories that
\* cannot be listed.
C1_ReachedEligibleFilesHaveOneSectionInWalkOrder ==
  opened =>
    /\ \A n \in 1..Len(visited) :
         LET f == visited[n] IN
         ( /\ eligible(call.repo, f)
           /\ stat(call.repo, f).readable
           /\ ~logged_for("error_processing", f) )
         => Cardinality(headers_of(f)) = 1
    /\ \A i \in at("hdr") : Cardinality(headers_of(disk[i].path)) = 1
    /\ \A i, j \in at("hdr") :
         i < j => visits_before(call.repo, disk[i].path, disk[j].path)
    /\ (pc = "walk" \/ summary_printed) =>
         /\ at("repo") = {1}
         /\ disk[1].text = repo_path
    /\ summary_printed =>
         { visited[n] : n \in 1..Len(visited) }
           = { f \in tree_files(call.repo) :
                 ~under_excluded(f) /\ ~under_unlistable(call.repo, f) }

\* A run over repoA with the 2 KiB ceiling that printed its summary: files
\* of the root and of nested directories have their sections.
C1_Witness ==
  /\ summary_printed
  /\ call.repo = "repoA"
  /\ headers_of(<<"a.txt">>) # {}
  /\ headers_of(<<"big.txt">>) # {}
  /\ headers_of(<<"src", "late.dat">>) # {}
  /\ headers_of(<<"src", "lib", "exact.txt">>) # {}

(***************************************************************************)
(* C2                                                                      *)
(***************************************************************************)

\* C2: every file with a path header in the output of the running call was
\* dealt with by the loop, is not larger than the ceiling, has no null
\* byte in its first 1024 bytes and matches none of the loaded patterns.
C2_EverySectionPassedTheClassification ==
  opened =>
    \A i \in at("hdr") :
      LET f == disk[i].path IN
      /\ \E n \in 1..Len(visited) : visited[n] = f
      /\ under_ceiling(call.repo, f)
      /\ ~null_in_first_KiB(call.repo, f)
      /\ ~matches_a_pattern(f)

\* With the 1 KiB ceiling: the file of exactly 1024 bytes has its section,
\* and the loop has passed the ignored, the binary, the oversized file and
\* the one whose null byte is the 1024th.
C2_Witness ==
  /\ opened
  /\ max_file_size = 1024
  /\ headers_of(<<"src", "lib", "exact.txt">>) # {}
  /\ {<<"run.log">>, <<"b.bin">>, <<"big.txt">>, <<"src", "edge.dat">>}
       \subseteq { visited[n] : n \in 1..Len(visited) }

(***************************************************************************)
(* C3                                                                      *)
(***************************************************************************)

\* C3: no file the walk yields, has still to yield, or that has a path
\* header lies in a directory of the exclusion set at any depth below the
\* root, whatever patterns are loaded.
C3_ExcludedDirectoriesContributeNothing ==
  /\ \A n \in 1..Len(pending) : ~under_excluded(pending[n])
  /\ \A n \in 1..Len(visited) : ~under_excluded(visited[n])
  /\ opened => \A i \in at("hdr") : ~under_excluded(disk[i].path)

\* A finished run over repoA, whose src/build/deep and .git hold files:
\* the walk went two levels down beside them, with patterns loaded.
C3_Witness ==
  /\ summary_printed
  /\ call.repo = "repoA"
  /\ gitignore_patterns # {}
  /\ <<"src", "build", "deep", "x.py">> \in tree_files("repoA")
  /\ headers_of(<<"src", "lib", "exact.txt">>) # {}

(***************************************************************************)
(* C4                                                                      *)
(***************************************************************************)

\* C4, as claimed: a call that ended without the summary was stopped by
\* the clone failing or by open() of the output file failing.
C4_OnlyCloneAndOpenFailuresStopARun ==
  (call # NoCall /\ pc \in {"idle", "cleanup"} /\ ~summary_printed) =>
    \/ raised = "CalledProcessError"
    \/ raised = "none" /\ ~opened /\ logged("error_conversion")

(***************************************************************************)
(* C5                                                                      *)
(***************************************************************************)

\* C5: in a call on a remote locator, convert_repository runs only with
\* the temporary directory in place and filled by the clone; the directory
\* is gone whenever the call is over; and a failed clone ends the call at
\* once, with nothing opened, walked, logged or printed.
C5_TempDirScopesTheTraversal ==
  call.remote =>
    /\ pc \in {"load", "open", "header", "walk"} => temp_exists /\ temp_populated
    /\ (opened \/ visited # <<>> \/ events # <<>>) => temp_populated
    /\ pc = "idle" => ~temp_exists
    /\ raised = "CalledProcessError" =>
         pc = "idle" /\ ~temp_populated /\ ~opened /\ visited = <<>> /\ events = <<>>

\* A remote call that converted its clone and is over.
C5_Witness ==
  /\ call.remote
  /\ pc = "idle"
  /\ summary_printed
  /\ at("hdr") # {}
  /\ ~temp_exists

(***************************************************************************)
(* C6                                                                      *)
(***************************************************************************)

\* C6: when a call on a local directory repeats the call before it (same
\* directory, same size option, a new converter both times or the same
\* converter again) and the output file failed neither, the two leave the
\* same artifact.
C6_RepeatedRunSameArtifact ==
  ( /\ call_ended
    /\ prev # NoRun
    /\ ~call.remote
    /\ call.cli => prev.call.cli
    /\ ~io_failed
    /\ ~prev.io_failed )
  => disk = prev.artifact

\* Two runs of the command on repoA, one after the other, both complete.
C6_Witness ==
  /\ call_ended
  /\ prev # NoRun
  /\ call.cli /\ prev.call.cli
  /\ call.repo = "repoA"
  /\ ~io_failed /\ ~prev.io_failed
  /\ summary_printed
  /\ Cardinality(at("hdr")) >= 4

(***************************************************************************)
(* C7                                                                      *)
(***************************************************************************)

\* C7, as claimed: when convert_repository is over, exactly one of the
\* summary and the "Error during conversion" log line has appeared, never
\* the summary after the error, and the output file's handle is closed.
C7_SummaryOrLoggedError ==
  convert_repository_ended =>
    /\ summary_printed # logged("error_conversion")
    /\ \A i, j \in 1..Len(events) :
         (events[i].ev = "error_conversion" /\ events[j].ev = "summary") => j < i
    /\ ~outfile_open

\* What is left of C7 when load_gitignore did not raise.
C7_HoldsOnceThePatternsAreLoaded ==
  (convert_repository_ended /\ raised = "none") =>
    /\ summary_printed # logged("error_conversion")
    /\ ~outfile_open

(***************************************************************************)
(* C8                                                                      *)
(***************************************************************************)

\* The codec chardet names for the file is none open() knows.
read_fails(repo, f) ==
  stat(repo, f).chardet # "" /\ stat(repo, f).chardet \notin PythonCodecs

\* C8: a file the loop has dealt with, that passed the classification,
\* whose read fails and whose section was written without a write raising:
\* the warning is logged, the section's content is empty, and the count
\* includes it (the count is the number of content entries written).
C8_ReadFailureGivesEmptySection ==
  opened =>
    \A n \in 1..Len(visited) :
      LET f == visited[n] IN
      ( /\ read_fails(call.repo, f)
        /\ eligible(call.repo, f)
        /\ ~logged_for("error_processing", f) )
      => /\ logged_for("warning_read", f)
         /\ headers_of(f) # {}
         /\ \E i \in at("txt") : disk[i].path = f
         /\ \A i \in at("txt") : disk[i].path = f => disk[i].text = ""
         /\ processed_files = Cardinality(at("txt"))

\* A run that went on to its summary after the read of src/lib/util.py failed.
C8_Witness ==
  /\ summary_printed
  /\ logged_for("warning_read", <<"src", "lib", "util.py">>)
  /\ \E i \in at("txt") : disk[i].path = <<"src", "lib", "util.py">> /\ disk[i].text = ""
  /\ \E i \in at("txt") : disk[i].path = <<"src", "lib", "exact.txt">>

(***************************************************************************)
(* C9                                                                      *)
(***************************************************************************)

\* C9, as claimed: during the walk and after it, the count is the number
\* of path headers in the output.
C9_CountEqualsPathHeaders ==
  (opened /\ (pc = "walk" \/ convert_repository_ended)) =>
    processed_files = Cardinality(at("hdr"))

\* C9, amended: the count is the number of sections written completely
\* (the content entries).  A file whose section write raised after its
\* path header was written leaves the header and is not counted, so the
\* headers exceed the count by the number of such files; without a failed
\* write the two are equal.  The summary prints that count.
C9_CountEqualsCompleteSections ==
  /\ ~opened => processed_files = 0
  /\ opened =>
       /\ processed_files = Cardinality(at("txt"))
       /\ Cardinality(at("hdr")) - processed_files =
            Cardinality({ i \in at("hdr") : logged_for("error_processing", disk[i].path) })
       /\ ~io_failed => processed_files = Cardinality(at("hdr"))
       /\ \A i \in 1..Len(events) :
            events[i].ev = "summary" => events[i].n = Cardinality(at("txt"))

\* A finished run in which one section write raised after its header.
C9_Witness ==
  /\ summary_printed
  /\ io_failed
  /\ processed_files > 0
  /\ Cardinality(at("hdr")) = processed_files + 1

(***************************************************************************)
(* C10                                                                     *)
(***************************************************************************)

\* C10, as claimed: the patterns in force during a walk are the non-empty,
\* non-comment lines of the .gitignore at the call's root, none when the
\* root has no .gitignore (looked at in the behaviours where the output
\* file never failed).
C10_PatternsAreThoseOfTheRoot ==
  (pc = "walk" /\ faults = 0) =>
    gitignore_patterns =
      (IF gitignore_file(call.repo).is_file THEN gitignore_lines(call.repo) ELSE {})

=============================================================================
